---- MODULE Spec2Model ----
(***************************************************************************)
(* A model of somviz/som.py: the Grid map geometry and its separations     *)
(* matrix, the batched best-matching-unit search, the fit training loop    *)
(* with its cached-state shortcut, and map / map_to_som.                   *)
(*                                                                         *)
(* Numbers.  float64 values are carried in fixed point: the integer v      *)
(* stands for the real v / Q.  Squares of such values are exact integers   *)
(* in units of 1 / Q^2.  sqrt and ** round down to the next fixed-point    *)
(* value, NaN is a value of its own that every operation propagates.       *)
(***************************************************************************)
EXTENDS Integers, Sequences, FiniteSets, TLC

VARIABLES
    signature,      \* Grid.__init__ argument: per-axis sizes, negative = wrap
    metric,         \* Grid._metric
    _separations,   \* MapGeometry._separations (None until first access)
    separation,     \* _calculate_separations: the working array
    sepk,           \* _calculate_separations: the axis loop position
    gpc,            \* position of the separations computation
    _weights,       \* SelfOrganizingMap._weights, shape (D, size)
    fb,             \* the running find_bmu call: its arguments and locals
    self_data,      \* SelfOrganizingMap.data
    _loss,          \* SelfOrganizingMap._loss
    disk,           \* the storage location: the files weights.npy and loss.npy
    ft,             \* the running fit call: its arguments, locals and outcome
    _indices,       \* attributes set by map
    _feature_dist,
    _target_dist,
    _target_vals,
    _target_pred,
    _counts,
    ret,            \* the outcome of the last map or map_to_som call
    h_map           \* history: the data and the prototypes of the last completed map

gridVars == <<signature, metric, _separations, separation, sepk, gpc>>
fitVars == <<self_data, _loss, disk, ft>>
bmuVars == <<_weights, fb>>
mapVars == <<_indices, _feature_dist, _target_dist, _target_vals, _target_pred, _counts, ret, h_map>>

-----------------------------------------------------------------------------
(* Bounds of the model *)

MaxAxes == 3
MaxNodes == 9
MaxN == 3
MaxW == 2
MaxIter == 2

-----------------------------------------------------------------------------
(* Numbers *)

FracBits == 4
Q == 2 ^ FracBits
NaN == 0 - 2 ^ 24
None == <<"None">>

Abs(x) == IF x < 0 THEN 0 - x ELSE x
Min2(a, b) == IF a < b THEN a ELSE b
Max2(a, b) == IF a < b THEN b ELSE a

\* floor of the square root of a non-negative integer
ISqrt(n) == CHOOSE r \in 0..n : r * r <= n /\ (r + 1) * (r + 1) > n

\* np.sqrt on a fixed-point value v (the real v / Q): floor(sqrt(v / Q) * Q)
SqrtFx(v) == IF v = NaN \/ v < 0 THEN NaN ELSE ISqrt(v * Q)

RECURSIVE SeqSum(_)
SeqSum(s) == IF s = <<>> THEN 0 ELSE Head(s) + SeqSum(Tail(s))

RECURSIVE SeqProd(_)
SeqProd(s) == IF s = <<>> THEN 1 ELSE Head(s) * SeqProd(Tail(s))

\* A SelfOrganizingMap right after __init__: no attribute but _mapgeom is set.
SomIdle ==
    /\ _weights = None
    /\ fb = [pc |-> "idle"]
    /\ self_data = None
    /\ _loss = None
    /\ disk = [weights |-> [state |-> "absent"], loss |-> [state |-> "absent"]]
    /\ ft = [pc |-> "idle"]
    /\ _indices = None
    /\ _feature_dist = None
    /\ _target_dist = None
    /\ _target_vals = None
    /\ _target_pred = None
    /\ _counts = None
    /\ ret = [op |-> "none"]
    /\ h_map = [done |-> FALSE]

-----------------------------------------------------------------------------
(* Grid *)

Metrics == {"L0", "L1", "L2"}

\* Grid.__init__: shape = [abs(k) for k in signature]
ShapeOf(sig) == [k \in 1..Len(sig) |-> Abs(sig[k])]

\* Grid.__init__: self._wrap = [k < 0 for k in signature]
WrapOf(sig) == [k \in 1..Len(sig) |-> sig[k] < 0]

\* Grid.__init__: x.size of np.empty(shape)
SizeOf(sig) == SeqProd(ShapeOf(sig))

shape == ShapeOf(signature)
wrap == WrapOf(signature)
size == SizeOf(signature)

\* The index tuple (C order) of flat position f in an array of shape shp.
RECURSIVE Unravel(_, _)
Unravel(f, shp) ==
    IF shp = <<>> THEN <<>>
    ELSE LET rest == SeqProd(Tail(shp))
         IN  <<f \div rest>> \o Unravel(f % rest, Tail(shp))

\* AxisDxk without the absolute value.
AxisDxkSigned(nk, wrapk) ==
    [x \in 0..(nk - 1) |-> [y \in 0..(nk - 1) |->
        LET d == x - y
        IN  IF wrapk /\ d > nk \div 2 THEN (d * (0 - 1)) + nk ELSE d]]

\* AxisDxk wrapping only beyond the rounded-up half of the axis.
AxisDxkHalfUp(nk, wrapk) ==
    [x \in 0..(nk - 1) |-> [y \in 0..(nk - 1) |->
        LET d == Abs(x - y)
        IN  IF wrapk /\ d > (nk + 1) \div 2 THEN (d * (0 - 1)) + nk ELSE d]]

\* The (nk, nk) matrix of integer separations along one axis, with wrap-around.
AxisDxk(nk, wrapk) ==
    [x \in 0..(nk - 1) |-> [y \in 0..(nk - 1) |->
        LET d == Abs(x - y)
        IN  IF wrapk /\ d > nk \div 2 THEN (d * (0 - 1)) + nk ELSE d]]

\* np.zeros(self.shape + self.shape), held flat in C order
SepZeros(sig) == [f \in 0..(SizeOf(sig) * SizeOf(sig) - 1) |-> 0]

\* One pass of the loop over axes: axis k (0-based) adds its contribution.
\* dxk.reshape(S) broadcasts dxk[t[k], t[k + ndim]] over the other axes.
SepAxisStep(sep, sig, met, k) ==
    LET ndim == Len(sig)
        nk   == ShapeOf(sig)[k + 1]
        dxk  == AxisDxk(nk, WrapOf(sig)[k + 1])
        shp2 == ShapeOf(sig) \o ShapeOf(sig)
    IN  [f \in DOMAIN sep |->
            LET t == Unravel(f, shp2)
                d == dxk[t[k + 1]][t[k + 1 + ndim]]
            IN  CASE met = "L2" -> sep[f] + (d * d) * Q
                  [] met = "L1" -> sep[f] + d * Q
                  [] met = "L0" -> Max2(sep[f], d * Q)]

\* After the loop: sqrt in place under L2, then reshape(size, size).
SepFinish(sep, sig, met) ==
    LET n == SizeOf(sig)
        s == IF met = "L2" THEN [f \in DOMAIN sep |-> SqrtFx(sep[f])] ELSE sep
    IN  [i \in 0..(n - 1) |-> [j \in 0..(n - 1) |-> s[i * n + j]]]

RECURSIVE SepLoop(_, _, _, _)
SepLoop(sep, sig, met, k) ==
    IF k >= Len(sig) THEN sep
    ELSE SepLoop(SepAxisStep(sep, sig, met, k), sig, met, k + 1)

\* Grid._calculate_separations as one call
CalculateSeparations(sig, met) ==
    SepFinish(SepLoop(SepZeros(sig), sig, met, 0), sig, met)

\* Grid(*signature, metric): the signatures the model constructs
Signatures ==
    UNION { { s \in [1..n -> ((0 - MaxNodes)..MaxNodes) \ {0}] :
                SizeOf(s) <= MaxNodes } : n \in 0..MaxAxes }

\* MapGeometry.__init__ / Grid.__init__
GridInit ==
    /\ signature \in Signatures
    /\ metric \in Metrics
    /\ _separations = None
    /\ separation = None
    /\ sepk = 0
    /\ gpc = "idle"
    /\ SomIdle

\* MapGeometry.separations, first access: enters _calculate_separations
SepBegin ==
    /\ gpc = "idle"
    /\ _separations = None
    /\ separation' = SepZeros(signature)
    /\ sepk' = 0
    /\ gpc' = "axes"
    /\ UNCHANGED <<signature, metric, _separations>>
    /\ UNCHANGED <<bmuVars, fitVars, mapVars>>

\* _calculate_separations: one iteration of the loop over axes
SepAxis ==
    /\ gpc = "axes"
    /\ sepk < Len(signature)
    /\ separation' = SepAxisStep(separation, signature, metric, sepk)
    /\ sepk' = sepk + 1
    /\ UNCHANGED <<signature, metric, _separations, gpc>>
    /\ UNCHANGED <<bmuVars, fitVars, mapVars>>

\* _calculate_separations returns; the property caches the matrix
SepReturn ==
    /\ gpc = "axes"
    /\ sepk >= Len(signature)
    /\ _separations' = SepFinish(separation, signature, metric)
    /\ separation' = None
    /\ gpc' = "idle"
    /\ UNCHANGED <<signature, metric, sepk>>
    /\ UNCHANGED <<bmuVars, fitVars, mapVars>>

GridNext == SepBegin \/ SepAxis \/ SepReturn

vars == <<gridVars, bmuVars, fitVars, mapVars>>

SpecGrid == GridInit /\ [][GridNext]_vars

-----------------------------------------------------------------------------
(* Claims about the separations matrix *)

Nodes == 0..(size - 1)

\* C2: the separations matrix is size x size, non-negative, zero on the
\* diagonal and symmetric, for every Grid (any axes, wrapping or not, any metric).
C2_SeparationsSymmetric ==
    _separations # None =>
        /\ DOMAIN _separations = Nodes
        /\ \A i \in Nodes :
            /\ DOMAIN _separations[i] = Nodes
            /\ _separations[i][i] = 0
            /\ \A j \in Nodes :
                /\ _separations[i][j] >= 0
                /\ _separations[i][j] = _separations[j][i]

\* A matrix has been computed for a grid of two or more axes, one of them
\* wrapping with at least three nodes.
C2_Witness ==
    /\ _separations # None
    /\ Len(signature) >= 2
    /\ \E k \in 1..Len(signature) : signature[k] <= 0 - 3
    /\ \E i, j \in Nodes : _separations[i][j] > Q

\* Coordinate k (1-based axis) of node i in row-major order.
LatticeCoord(i, k) == (i \div SeqProd(SubSeq(shape, k + 1, Len(shape)))) % shape[k]

\* The distance between nodes i and j along axis k.
AxisDistance(i, j, k) ==
    LET d == Abs(LatticeCoord(i, k) - LatticeCoord(j, k))
    IN  IF wrap[k] THEN Min2(d, shape[k] - d) ELSE d

RECURSIVE SeqMax(_)
SeqMax(s) == IF s = <<>> THEN 0 ELSE Max2(Head(s), SeqMax(Tail(s)))

\* C3: separations[i][j] combines the per-axis distances between the row-major
\* coordinates of i and j: their sum under L1, their maximum under L0, and under
\* L2 the (rounded-down) square root of the sum of their squares; on a 1-D grid
\* it is |i-j|, or min(|i-j|, n-|i-j|) when the axis wraps, under every metric.
C3_SeparationsFormula ==
    _separations # None =>
        \A i, j \in Nodes :
            LET ds == [k \in 1..Len(signature) |-> AxisDistance(i, j, k)]
                s  == _separations[i][j]
            IN  /\ metric = "L1" => s = SeqSum(ds) * Q
                /\ metric = "L0" => s = SeqMax(ds) * Q
                /\ metric = "L2" =>
                    LET sumsq == SeqSum([k \in DOMAIN ds |-> ds[k] * ds[k]]) * Q * Q
                    IN  s >= 0 /\ s * s <= sumsq /\ (s + 1) * (s + 1) > sumsq
                /\ Len(signature) = 1 =>
                    s = Q * (IF signature[1] < 0
                             THEN Min2(Abs(i - j), size - Abs(i - j))
                             ELSE Abs(i - j))

\* A computed matrix where wrap-around shortens a distance and another axis
\* contributes as well.
C3_Witness ==
    /\ _separations # None
    /\ Len(signature) >= 2
    /\ \E i, j \in Nodes :
        /\ \E k \in 1..Len(signature) :
            wrap[k] /\ AxisDistance(i, j, k) < Abs(LatticeCoord(i, k) - LatticeCoord(j, k))
        /\ \E k \in 1..Len(signature) : ~wrap[k] /\ AxisDistance(i, j, k) > 0

-----------------------------------------------------------------------------
(* Arrays.  A 1-D array of length n is a function on 0..n-1; an (N, D)      *)
(* matrix is an array of N rows.                                            *)

Arr(s) == [i \in 0..(Len(s) - 1) |-> s[i + 1]]
Mat(s) == [i \in 0..(Len(s) - 1) |-> Arr(s[i + 1])]
ALen(a) == Cardinality(DOMAIN a)
Fill(n, v) == [i \in 0..(n - 1) |-> v]

\* What np.empty may hold before it is written.
Uninit == {0, 5}

\* float arithmetic, exact on the integers, propagating NaN
FSub(a, b) == IF a = NaN \/ b = NaN THEN NaN ELSE a - b
FAdd(a, b) == IF a = NaN \/ b = NaN THEN NaN ELSE a + b
FSq(a) == IF a = NaN THEN NaN ELSE a * a

\* np.sum of a 1-D array
RECURSIVE ASumFrom(_, _)
ASumFrom(a, i) == IF i >= ALen(a) THEN 0 ELSE FAdd(a[i], ASumFrom(a, i + 1))
ASum(a) == ASumFrom(a, 0)

\* np.argmin of a non-empty 1-D array taking the last of equal minima.
ArgMinLast(a) ==
    IF \E i \in DOMAIN a : a[i] = NaN
    THEN CHOOSE i \in DOMAIN a : a[i] = NaN /\ \A j \in DOMAIN a : j < i => a[j] # NaN
    ELSE CHOOSE i \in DOMAIN a :
            /\ \A j \in DOMAIN a : a[i] <= a[j]
            /\ \A j \in DOMAIN a : j > i => a[i] < a[j]

\* np.argmin of a non-empty 1-D array: the first index of the minimum, a NaN
\* counting as the minimum.
ArgMin(a) ==
    IF \E i \in DOMAIN a : a[i] = NaN
    THEN CHOOSE i \in DOMAIN a : a[i] = NaN /\ \A j \in DOMAIN a : j < i => a[j] # NaN
    ELSE CHOOSE i \in DOMAIN a :
            /\ \A j \in DOMAIN a : a[i] <= a[j]
            /\ \A j \in DOMAIN a : j < i => a[j] > a[i]

-----------------------------------------------------------------------------
(* find_bmu *)

\* The locals of find_bmu after the preallocation, before the first batch.
\* g is what the np.empty arrays hold.
BmuBegin(data, weights, batchsize, g) ==
    LET N == ALen(data)
        D == ALen(data[0])
        W == ALen(weights[0])
        S == Min2(N, batchsize)
    IN  [data |-> data, batchsize |-> batchsize,
         nbatch |-> (N + batchsize - 1) \div batchsize,
         ibatch |-> 0,
         buf |-> Fill(S, Fill(D, Fill(W, g))),
         distsq |-> Fill(S, Fill(W, g)),
         bmu |-> Fill(N, g),
         pc |-> IF D = ALen(weights) THEN "batches" ELSE "AssertionError"]

\* ihi = min(ilo + batchsize, N)
BatchHi(ilo, batchsize, N) == Min2(ilo + batchsize, N)

\* One iteration of the loop over batches.
BmuBatchStep(l, weights) ==
    LET N    == ALen(l.data)
        S    == ALen(l.buf)
        D    == ALen(weights)
        W    == ALen(weights[0])
        ilo  == l.ibatch * l.batchsize
        ihi  == BatchHi(ilo, l.batchsize, N)
        \* buf[:ihi-ilo] = data[ilo:ihi,:,np.newaxis]
        buf1 == [r \in 0..(S - 1) |->
                    IF r < ihi - ilo
                    THEN [d \in 0..(D - 1) |-> Fill(W, l.data[ilo + r][d])]
                    ELSE l.buf[r]]
        \* buf -= self._weights ; buf = np.power(buf, 2, out=buf)
        buf2 == [r \in 0..(S - 1) |-> [d \in 0..(D - 1) |-> [w \in 0..(W - 1) |->
                    FSq(FSub(buf1[r][d][w], weights[d][w]))]]]
        \* distsq[:] = np.sum(buf, axis=1)
        dsq  == [r \in 0..(S - 1) |-> [w \in 0..(W - 1) |->
                    ASum([d \in 0..(D - 1) |-> buf2[r][d][w]])]]
    IN  [l EXCEPT !.buf = buf2,
                  !.distsq = dsq,
                  \* bmu[ilo:ihi] = np.argmin(distsq[:ihi-ilo], axis=1)
                  !.bmu = [n \in 0..(N - 1) |->
                              IF ilo <= n /\ n < ihi THEN ArgMin(dsq[n - ilo])
                              ELSE l.bmu[n]],
                  !.ibatch = l.ibatch + 1]

RECURSIVE BmuLoop(_, _)
BmuLoop(l, weights) ==
    IF l.ibatch >= l.nbatch THEN l ELSE BmuLoop(BmuBatchStep(l, weights), weights)

\* find_bmu as one call (the dimensions agree): the returned bmu array
FindBmu(data, weights, batchsize, g) ==
    BmuLoop(BmuBegin(data, weights, batchsize, g), weights).bmu

\* Feature vectors the search is run on: one- and two-dimensional ones.
BmuVectors == {<<0>>, <<1>>, <<3>>, <<0, 0>>, <<1, 2>>, <<2, 1>>}

\* All matrices of n rows from BmuVectors with equal row lengths.
RowMatrices(n) ==
    { m \in [0..(n - 1) -> BmuVectors] : \A i \in 0..(n - 1) : Len(m[i]) = Len(m[0]) }

\* (N, D) data matrices
BmuDatas == UNION { { [i \in 0..(n - 1) |-> Arr(m[i])] : m \in RowMatrices(n) } : n \in 1..MaxN }

\* (D, W) prototype matrices: column w is a vector of BmuVectors
BmuWeights ==
    UNION { { [d \in 0..(Len(m[0]) - 1) |-> [w \in 0..(n - 1) |-> m[w][d + 1]]] :
                m \in RowMatrices(n) } : n \in 1..MaxW }

\* A map over a 1-D grid with one node per prototype column.
BmuInit ==
    /\ _weights \in BmuWeights
    /\ fb = [pc |-> "idle"]
    /\ signature = <<ALen(_weights[0])>>
    /\ metric = "L2"
    /\ _separations = None
    /\ separation = None
    /\ sepk = 0
    /\ gpc = "idle"
    /\ self_data = None
    /\ _loss = None
    /\ disk = [weights |-> [state |-> "absent"], loss |-> [state |-> "absent"]]
    /\ ft = [pc |-> "idle"]
    /\ _indices = None
    /\ _feature_dist = None
    /\ _target_dist = None
    /\ _target_vals = None
    /\ _target_pred = None
    /\ _counts = None
    /\ ret = [op |-> "none"]
    /\ h_map = [done |-> FALSE]

\* find_bmu(data, batchsize) is called
BmuCall ==
    /\ fb.pc = "idle"
    /\ \E data \in BmuDatas, batchsize \in 1..(MaxN + 1), g \in Uninit :
        fb' = BmuBegin(data, _weights, batchsize, g)
    /\ UNCHANGED <<_weights, gridVars, fitVars, mapVars>>

\* one batch
BmuBatch ==
    /\ fb.pc = "batches"
    /\ fb.ibatch < fb.nbatch
    /\ fb' = BmuBatchStep(fb, _weights)
    /\ UNCHANGED <<_weights, gridVars, fitVars, mapVars>>

\* return bmu
BmuReturn ==
    /\ fb.pc = "batches"
    /\ fb.ibatch >= fb.nbatch
    /\ fb' = [data |-> fb.data, batchsize |-> fb.batchsize, bmu |-> fb.bmu, pc |-> "returned"]
    /\ UNCHANGED <<_weights, gridVars, fitVars, mapVars>>

BmuNext == BmuCall \/ BmuBatch \/ BmuReturn

SpecBmu == BmuInit /\ [][BmuNext]_vars

\* The squared Euclidean distance between data row x and prototype w.
DistSq(x, weights, w) ==
    SeqSum([d \in 1..ALen(x) |-> (x[d - 1] - weights[d - 1][w]) * (x[d - 1] - weights[d - 1][w])])

\* C1: find_bmu returns a length-N vector whose entry n is the smallest node
\* index minimising the squared Euclidean distance from data row n to the
\* prototypes, whatever the batch size.
C1_FindBmuNearest ==
    fb.pc = "returned" =>
        /\ DOMAIN fb.bmu = DOMAIN fb.data
        /\ \A n \in DOMAIN fb.data :
            LET W == ALen(_weights[0])
                b == fb.bmu[n]
            IN  /\ b \in 0..(W - 1)
                /\ \A w \in 0..(W - 1) :
                    /\ DistSq(fb.data[n], _weights, b) <= DistSq(fb.data[n], _weights, w)
                    /\ w < b => DistSq(fb.data[n], _weights, b) < DistSq(fb.data[n], _weights, w)

\* A search has returned that ran a short last batch over two-dimensional
\* data with two prototypes at the same distance from some row.
C1_Witness ==
    /\ fb.pc = "returned"
    /\ ALen(fb.data) % fb.batchsize # 0
    /\ ALen(fb.data) > fb.batchsize
    /\ ALen(_weights) = 2
    /\ ALen(_weights[0]) = 2
    /\ \E n \in DOMAIN fb.data :
        /\ fb.bmu[n] = 0
        /\ DistSq(fb.data[n], _weights, 0) = DistSq(fb.data[n], _weights, 1)
        /\ _weights[0][0] # _weights[0][1]

-----------------------------------------------------------------------------
(* Fixed-point evaluation of the float operations fit uses *)

FMul(a, b) == IF a = NaN \/ b = NaN THEN NaN ELSE (a * b) \div Q

RECURSIVE Gcd(_, _)
Gcd(a, b) == IF b = 0 THEN a ELSE Gcd(b, a % b)

\* floor of the n-th root of x
IRoot(x, n) == CHOOSE r \in 0..x : r ^ n <= x /\ (r + 1) ^ n > x

\* b ** (num / den) for b >= 0 and 0 <= num <= den, den > 0
PowFx(b, num, den) ==
    LET g == Gcd(den, num)
        n == num \div g
        d == den \div g
    IN  IF n = 0 THEN Q ELSE IF b = 0 THEN 0 ELSE IRoot((b ^ n) * (Q ^ (d - n)), d)

\* np.exp(-t) for a fixed-point t >= 0, evaluated as 1 / (1 + t + t^2 / 2)
ExpNegFx(t) == IF t = NaN THEN NaN ELSE (Q * Q * Q * 2) \div (2 * Q * Q + 2 * Q * t + t * t)

\* np.sqrt of a squared distance held in units of 1 / Q^2
SqrtSq(v) == IF v = NaN THEN NaN ELSE ISqrt(v)

\* round(num / den), Python 3: halves go to the even neighbour
RoundHalfEven(num, den) ==
    LET q == num \div den
        r == num % den
    IN  IF 2 * r < den THEN q
        ELSE IF 2 * r > den THEN q + 1
        ELSE IF q % 2 = 0 THEN q ELSE q + 1

\* np.random.RandomState(seed): the generator is a deterministic stream; the
\* model's stream is a linear congruential one over 0..63, seeded with seed.
RngNext(s) == (13 * s + 7) % 64

RECURSIVE RngAt(_, _)
RngAt(s, k) == IF k = 0 THEN s ELSE RngAt(RngNext(s), k - 1)

\* rng.rand: a draw from [0, 1)
RandOf(s) == (s * Q) \div 64
\* rng.normal: a draw centred on 0
NormalOf(s) == ((s * (4 * Q + 1)) \div 64) - 2 * Q
\* rng.choice(N): a draw from 0..N-1
ChoiceOf(s, N) == (s * N) \div 64

\* np.std(data, axis=0)[d]
StdFx(data, d) ==
    LET N  == ALen(data)
        s1 == ASum([n \in 0..(N - 1) |-> data[n][d]])
        s2 == ASum([n \in 0..(N - 1) |-> data[n][d] * data[n][d]])
    IN  ISqrt(N * s2 - s1 * s1) \div N

\* m.T
Transpose(m) ==
    [j \in 0..(ALen(m[0]) - 1) |-> [i \in 0..(ALen(m) - 1) |-> m[i][j]]]

\* np.max / np.min over the positive entries / np.mean of the separations
SepMax(sep) == CHOOSE v \in {sep[i][j] : i, j \in DOMAIN sep} :
                  \A i, j \in DOMAIN sep : sep[i][j] <= v
SepPositive(sep) == {sep[i][j] : i, j \in DOMAIN sep} \ {0}
SepMinPositive(sep) == CHOOSE v \in SepPositive(sep) : \A u \in SepPositive(sep) : v <= u
SepMean(sep) ==
    ASum([i \in DOMAIN sep |-> ASum(sep[i])]) \div (ALen(sep) * ALen(sep))

-----------------------------------------------------------------------------
(* fit *)

SaveDir == <<"som_dir">>

Absent == [state |-> "absent"]
Corrupt == [state |-> "corrupt"]
\* The arguments of fit that a fresh run depends on.
TrainKey(a) ==
    [x \in {"data", "maxiter", "iterfrac", "eta", "init", "seed", "somz"} |-> a[x]]

\* A complete file.  by is history: the training arguments of the fit call
\* that wrote it.
File(c, a) == [state |-> "ok", content |-> c, by |-> TrainKey(a)]

\* the constants of SOMz mode
aps == (8 * Q) \div 10
ape == (5 * Q) \div 10

\* (N, D) training matrices
DataA == Mat(<<<<0, Q>>, <<2 * Q, 0>>, <<Q, 3 * Q>>>>)
DataB == Mat(<<<<Q, 2 * Q>>>>)

\* Every combination of arguments the model draws from.  With iterfrac = 1/2
\* the mini-batch of DataA has two samples and that of DataB none.
AllFitArgs ==
    [data : {DataA, DataB}, maxiter : 0..MaxIter, iterfrac : {<<1, 2>>},
     eta : {Q \div 2}, init : {"random", "pca"}, seed : {1, 2},
     somz : BOOLEAN, save : {None, SaveDir}, use_saved : BOOLEAN]

\* The fit calls of the model.  use_saved is held at one value where there is
\* no storage location, the calls with an invalid init are made on DataA with
\* maxiter = 1, and DataB is fitted with seed 1.
FitArgs ==
    { a \in AllFitArgs :
        /\ a.save = None => a.use_saved
        /\ a.init # "random" => (a.data = DataA /\ a.maxiter = 1)
        /\ a.data = DataB => a.seed = 1 }

\* The fit calls of the model of interrupted runs: valid training calls on
\* DataA with the storage location.
CrashArgs ==
    { a \in AllFitArgs :
        /\ a.data = DataA /\ a.seed = 1 /\ a.init = "random" /\ a.save = SaveDir }

\* lines 203 / 206: the initial prototype matrix, drawn from generator state s
WeightsInit(a, n, s) ==
    LET D == ALen(a.data[0])
    IN  [d \in 0..(D - 1) |-> [j \in 0..(n - 1) |->
            IF a.somz
            THEN RandOf(RngAt(s, d * n + j + 1)) + a.data[0][0]
            ELSE FMul(StdFx(a.data, d), NormalOf(RngAt(s, d * n + j + 1)))]]

\* The locals of fit when it reaches its training loop (lines 192-218, 251),
\* given the separations matrix.
FitLocals(a, sep) ==
    LET N == ALen(a.data)
        D == ALen(a.data[0])
        n == ALen(sep)
        base == [pc |-> "epoch", args |-> a, cached |-> FALSE,
                 rng |-> RngAt(a.seed, D * n), N |-> N, D |-> D,
                 batch_size |-> RoundHalfEven(a.iterfrac[1] * N, a.iterfrac[2]),
                 it |-> 0, epochs |-> 0, updates |-> 0]
    IN  IF a.somz
        THEN [tt |-> 0, sigma0 |-> SepMax(sep), sigma_single |-> SepMinPositive(sep),
              nt |-> a.maxiter * N] @@ base
        ELSE [large_scale |-> SepMean(sep)] @@ base

\* separations[np.where(separations > 0.)] is empty: np.min raises ValueError
NoPositiveSeparation(sep) == SepPositive(sep) = {}

\* The separations property: the cached matrix, computed at the first access.
Separations == IF _separations = None THEN CalculateSeparations(signature, metric)
               ELSE _separations

\* Whether fit takes the cached-state shortcut (line 186).
CacheHit(a) ==
    /\ a.save # None
    /\ a.use_saved
    /\ disk.weights.state # "absent"
    /\ disk.loss.state # "absent"

\* np.load(save_weights).T (line 188)
LoadWeights(f) == Transpose(f.content)

\* init == 'random' (line 201)
ValidInit(init) == init = "random"

\* fit(...) is called and restores the saved state (lines 181-190).
FitRestore(a) ==
    /\ ft.pc = "idle"
    /\ CacheHit(a)
    /\ IF disk.weights.state = "corrupt"
       THEN /\ ft' = [pc |-> "LoadError", args |-> a, cached |-> TRUE, epochs |-> 0, updates |-> 0]
            /\ UNCHANGED <<_weights, _loss>>
       ELSE IF disk.loss.state = "corrupt"
       THEN /\ _weights' = LoadWeights(disk.weights)
            /\ ft' = [pc |-> "LoadError", args |-> a, cached |-> TRUE, epochs |-> 0, updates |-> 0]
            /\ UNCHANGED _loss
       ELSE /\ _weights' = LoadWeights(disk.weights)
            /\ _loss' = disk.loss.content
            /\ ft' = [pc |-> "returned", args |-> a, cached |-> TRUE, epochs |-> 0, updates |-> 0]
    /\ ret' = [op |-> "none"]
    /\ UNCHANGED <<self_data, disk, fb, gridVars, _indices, _feature_dist, _target_dist,
                   _target_vals, _target_pred, _counts, h_map>>

\* fit(...) is called and starts a fresh run (lines 181-218, 251): it ends in
\* ValueError on an invalid init, or on SOMz mode over a geometry with no
\* positive separation, and stands before its first epoch otherwise.
FitStart(a) ==
    /\ ft.pc = "idle"
    /\ ~CacheHit(a)
    /\ self_data' = a.data
    /\ \E g \in Uninit : _loss' = Fill(a.maxiter, g)
    /\ IF ~ValidInit(a.init)
       THEN /\ ft' = [pc |-> "ValueError", args |-> a, cached |-> FALSE, epochs |-> 0, updates |-> 0]
            /\ UNCHANGED <<_weights, _separations>>
       ELSE /\ _weights' = WeightsInit(a, size, a.seed)
            /\ _separations' = Separations
            /\ IF a.somz /\ NoPositiveSeparation(Separations)
               THEN ft' = [pc |-> "ValueError", args |-> a, cached |-> FALSE, epochs |-> 0, updates |-> 0]
               ELSE ft' = FitLocals(a, Separations)
    /\ ret' = [op |-> "none"]
    /\ UNCHANGED <<disk, fb, signature, metric, separation, sepk, gpc, _indices, _feature_dist,
                   _target_dist, _target_vals, _target_pred, _counts, h_map>>

\* The rate and the neighbourhood width of an epoch (lines 221-222, 260-261).
EpochRates(l) ==
    IF l.args.somz
    THEN [rate  |-> FMul(aps, PowFx((ape * Q) \div aps, l.tt, l.nt)),
          width |-> FMul(l.sigma0, PowFx((l.sigma_single * Q) \div l.sigma0, l.tt, l.nt))]
    ELSE [rate  |-> PowFx(l.args.eta, l.it, l.args.maxiter),
          width |-> PowFx(l.large_scale, l.args.maxiter - l.it, l.args.maxiter) \div 2]

\* An epoch begins: the schedule values and the mini-batch (lines 220-223, 253-262).
EpochBeginStep(l) ==
    [l EXCEPT !.pc = "sample"] @@
    [loss |-> 0, j |-> 0,
     rate |-> EpochRates(l).rate, width |-> EpochRates(l).width,
     batch_idx |-> [k \in 0..(l.batch_size - 1) |-> ChoiceOf(RngAt(l.rng, k + 1), l.N)],
     rng1 |-> RngAt(l.rng, l.batch_size)]

EpochBegin ==
    /\ ft.pc = "epoch"
    /\ ft.it < ft.args.maxiter
    /\ ft' = EpochBeginStep(ft)
    /\ UNCHANGED <<_weights, self_data, _loss, disk, fb, gridVars, mapVars>>

\* The neighbourhood weight of a node at map distance dz from the best
\* matching unit (lines 230, 273).
Kernel(somz, dz, width) ==
    IF width = 0 THEN (IF dz = 0 THEN NaN ELSE 0)
    ELSE IF somz THEN ExpNegFx((dz * dz * Q) \div (width * width))
    ELSE ExpNegFx(((dz * dz * Q) \div (width * width)) \div 2)

\* The sample update rule (lines 227-232, 266-273) on prototypes w.
SampleStep(w, x, somz, rate, width, sep) ==
    LET D      == ALen(w)
        n      == ALen(w[0])
        dx     == [d \in 0..(D - 1) |-> [j \in 0..(n - 1) |-> FSub(x[d], w[d][j])]]
        distsq == [j \in 0..(n - 1) |-> ASum([d \in 0..(D - 1) |-> FSq(dx[d][j])])]
        best   == ArgMin(distsq)
    IN  [weights |-> [d \in 0..(D - 1) |-> [j \in 0..(n - 1) |->
                        FAdd(w[d][j], FMul(FMul(rate, Kernel(somz, sep[best][j], width)), dx[d][j]))]],
         loss |-> SqrtSq(distsq[best])]

\* tt after a sample: the counter is initialised and never advanced.
TtAfterSample(tt) == tt

\* The locals after one sample of the mini-batch, whose loss term is r.
SampleLocals(l, r) ==
    IF l.args.somz
    THEN [l EXCEPT !.loss = FAdd(l.loss, r), !.j = l.j + 1,
                   !.updates = l.updates + 1, !.tt = TtAfterSample(l.tt)]
    ELSE [l EXCEPT !.loss = FAdd(l.loss, r), !.j = l.j + 1, !.updates = l.updates + 1]

\* One sample of the mini-batch is processed.
SampleUpdate ==
    /\ ft.pc = "sample"
    /\ ft.j < ft.batch_size
    /\ LET r == SampleStep(_weights, self_data[ft.batch_idx[ft.j]], ft.args.somz,
                           ft.rate, ft.width, _separations)
       IN  /\ _weights' = r.weights
           /\ ft' = SampleLocals(ft, r.loss)
    /\ UNCHANGED <<self_data, _loss, disk, fb, gridVars, mapVars>>

\* The locals after an epoch.
EpochEndLocals(l) ==
    [x \in (DOMAIN l) \ {"loss", "j", "rate", "width", "batch_idx", "rng1"} |->
        CASE x = "pc" -> "epoch"
          [] x = "it" -> l.it + 1
          [] x = "epochs" -> l.epochs + 1
          [] x = "rng" -> l.rng1
          [] OTHER -> l[x]]

\* The epoch ends and its loss is stored, with the state saved to the storage
\* location after every epoch.
EpochEndSaving ==
    /\ ft.pc = "sample"
    /\ ft.j >= ft.batch_size
    /\ _loss' = [_loss EXCEPT ![ft.it] = ft.loss]
    /\ ft' = EpochEndLocals(ft)
    /\ disk' = IF ft.args.save = None THEN disk
               ELSE [weights |-> File(Transpose(_weights), ft.args),
                     loss |-> File(_loss', ft.args)]
    /\ UNCHANGED <<_weights, self_data, fb, gridVars, mapVars>>

\* The epoch ends: its loss is stored (lines 233, 274).
EpochEnd ==
    /\ ft.pc = "sample"
    /\ ft.j >= ft.batch_size
    /\ _loss' = [_loss EXCEPT ![ft.it] = ft.loss]
    /\ ft' = EpochEndLocals(ft)
    /\ UNCHANGED <<_weights, self_data, disk, fb, gridVars, mapVars>>

\* fit as one call, from the first epoch to the last: t holds the prototypes
\* w, the loss history hist and the locals l.
RECURSIVE TrainRun(_, _)
TrainRun(t, sep) ==
    IF t.l.pc = "epoch"
    THEN IF t.l.it >= t.l.args.maxiter THEN t
         ELSE TrainRun([t EXCEPT !.l = EpochBeginStep(t.l)], sep)
    ELSE IF t.l.j < t.l.batch_size
    THEN LET r == SampleStep(t.w, t.l.args.data[t.l.batch_idx[t.l.j]], t.l.args.somz,
                             t.l.rate, t.l.width, sep)
         IN  TrainRun([t EXCEPT !.w = r.weights, !.l = SampleLocals(t.l, r.loss)], sep)
    ELSE TrainRun([t EXCEPT !.hist = [t.hist EXCEPT ![t.l.it] = t.l.loss],
                            !.l = EpochEndLocals(t.l)], sep)

\* What a run of fit(a) that does not take the cached-state shortcut ends
\* with, on a map over Grid(sig, metric=met).
FreshFit(a, sig, met) ==
    LET sep == CalculateSeparations(sig, met)
    IN  IF ~ValidInit(a.init) \/ (a.somz /\ NoPositiveSeparation(sep))
        THEN [error |-> TRUE]
        ELSE LET t == TrainRun([w |-> WeightsInit(a, SizeOf(sig), a.seed),
                                hist |-> Fill(a.maxiter, 0),
                                l |-> FitLocals(a, sep)], sep)
             IN  [error |-> FALSE, weights |-> t.w, loss |-> t.hist]

\* After the last epoch, without a storage location: fit returns.
FitReturn ==
    /\ ft.pc = "epoch"
    /\ ft.it >= ft.args.maxiter
    /\ ft.args.save = None
    /\ ft' = [pc |-> "returned", args |-> ft.args, cached |-> FALSE,
              epochs |-> ft.epochs, updates |-> ft.updates]
    /\ UNCHANGED <<_weights, self_data, _loss, disk, fb, gridVars, mapVars>>

\* After the last epoch, with a storage location: np.save(save_weights, ...)
\* opens weights.npy for writing, which empties it (line 279).
FitSaveWeightsOpen ==
    /\ ft.pc = "epoch"
    /\ ft.it >= ft.args.maxiter
    /\ ft.args.save # None
    /\ disk' = [disk EXCEPT !.weights = Corrupt]
    /\ ft' = [pc |-> "writing_weights", args |-> ft.args, cached |-> FALSE,
              epochs |-> ft.epochs, updates |-> ft.updates]
    /\ UNCHANGED <<_weights, self_data, _loss, fb, gridVars, mapVars>>

\* np.save has written self._weights.T, the (size, D) layout
FitSaveWeightsClose ==
    /\ ft.pc = "writing_weights"
    /\ disk' = [disk EXCEPT !.weights = File(Transpose(_weights), ft.args)]
    /\ ft' = [ft EXCEPT !.pc = "save_loss"]
    /\ UNCHANGED <<_weights, self_data, _loss, fb, gridVars, mapVars>>

\* np.save(save_loss, self._loss) opens loss.npy for writing (line 280)
FitSaveLossOpen ==
    /\ ft.pc = "save_loss"
    /\ disk' = [disk EXCEPT !.loss = Corrupt]
    /\ ft' = [ft EXCEPT !.pc = "writing_loss"]
    /\ UNCHANGED <<_weights, self_data, _loss, fb, gridVars, mapVars>>

\* np.save has written the loss history, and fit returns
FitSaveLossClose ==
    /\ ft.pc = "writing_loss"
    /\ disk' = [disk EXCEPT !.loss = File(_loss, ft.args)]
    /\ ft' = [ft EXCEPT !.pc = "returned"]
    /\ UNCHANGED <<_weights, self_data, _loss, fb, gridVars, mapVars>>

\* The process is terminated while fit runs; a new process constructs the
\* map again over the same storage.
Interrupt ==
    /\ ft.pc \in {"epoch", "sample", "writing_weights", "save_loss", "writing_loss"}
    /\ _weights' = None
    /\ fb' = [pc |-> "idle"]
    /\ self_data' = None
    /\ _loss' = None
    /\ ft' = [pc |-> "idle"]
    /\ _separations' = None
    /\ _indices' = None
    /\ _feature_dist' = None
    /\ _target_dist' = None
    /\ _target_vals' = None
    /\ _target_pred' = None
    /\ _counts' = None
    /\ ret' = [op |-> "none"]
    /\ h_map' = [done |-> FALSE]
    /\ UNCHANGED <<disk, signature, metric, separation, sepk, gpc>>

\* Control is back with the caller, which has seen the outcome of the call.
FitDone ==
    /\ ft.pc \in {"returned", "ValueError", "LoadError"}
    /\ ft' = [pc |-> "idle"]
    /\ UNCHANGED <<_weights, self_data, _loss, disk, fb, gridVars, mapVars>>

\* The grids the training model is run on.
FitGrids == {<<<<1>>, "L2">>, <<<<2, 2>>, "L2">>}

FitInit ==
    /\ \E gm \in FitGrids : signature = gm[1] /\ metric = gm[2]
    /\ _separations = None
    /\ separation = None
    /\ sepk = 0
    /\ gpc = "idle"
    /\ SomIdle

FitRestoreCall == ft.pc = "idle" /\ \E a \in FitArgs : FitRestore(a)
FitStartCall == ft.pc = "idle" /\ \E a \in FitArgs : FitStart(a)
CrashRestoreCall == ft.pc = "idle" /\ \E a \in CrashArgs : FitRestore(a)
CrashStartCall == ft.pc = "idle" /\ \E a \in CrashArgs : FitStart(a)

FitNext ==
    \/ FitRestoreCall
    \/ FitStartCall
    \/ EpochBegin
    \/ SampleUpdate
    \/ EpochEnd
    \/ FitReturn
    \/ FitSaveWeightsOpen
    \/ FitSaveWeightsClose
    \/ FitSaveLossOpen
    \/ FitSaveLossClose
    \/ FitDone

Spec == FitInit /\ [][FitNext]_vars

CrashNext ==
    \/ CrashRestoreCall
    \/ CrashStartCall
    \/ EpochBegin
    \/ SampleUpdate
    \/ EpochEnd
    \/ FitSaveWeightsOpen
    \/ FitSaveWeightsClose
    \/ FitSaveLossOpen
    \/ FitSaveLossClose
    \/ FitDone
    \/ Interrupt

SpecCrash == FitInit /\ [][CrashNext]_vars

-----------------------------------------------------------------------------
(* map and map_to_som *)

\* a[mask]: the entries of a whose index satisfies the mask, in order
RECURSIVE SelectFrom(_, _, _)
SelectFrom(a, idx, i) ==
    IF i >= ALen(a) THEN <<>>
    ELSE (IF idx[i] THEN <<a[i]>> ELSE <<>>) \o SelectFrom(a, idx, i + 1)
Select(a, mask) == Arr(SelectFrom(a, mask, 0))

\* np.mean of a 1-D array: NaN (and a warning) for the empty array
Mean(a) == IF ALen(a) = 0 THEN NaN ELSE ASum(a) \div ALen(a)

\* np.bincount(x) without minlength: one bin per value up to the largest.
BincountNoMin(x, minlength) ==
    LET n == IF ALen(x) = 0 THEN 0
             ELSE 1 + (CHOOSE m \in {x[i] : i \in DOMAIN x} : \A i \in DOMAIN x : x[i] <= m)
    IN  [c \in 0..(n - 1) |-> Cardinality({i \in DOMAIN x : x[i] = c})]

\* np.bincount(x, minlength=minlength)
Bincount(x, minlength) ==
    LET hi == IF ALen(x) = 0 THEN 0
              ELSE 1 + (CHOOSE m \in {x[i] : i \in DOMAIN x} : \A i \in DOMAIN x : x[i] <= m)
        n  == Max2(minlength, hi)
    IN  [c \in 0..(n - 1) |-> Cardinality({i \in DOMAIN x : x[i] = c})]

\* the default batchsize of find_bmu
DefaultBatchsize == 1024

\* vals[best]: fancy indexing of a 1-D array
Take(vals, best) == [n \in DOMAIN best |-> vals[best[n]]]

\* map(data, target) (lines 283-295)
Map(data, target) ==
    /\ ft.pc = "idle"
    /\ IF _weights = None
       THEN /\ ret' = [op |-> "map", outcome |-> "AttributeError"]
            /\ UNCHANGED <<_indices, _feature_dist, _target_dist, _target_vals,
                           _target_pred, _counts, h_map>>
       ELSE IF ALen(data[0]) # ALen(_weights)
       THEN /\ ret' = [op |-> "map", outcome |-> "AssertionError"]
            /\ UNCHANGED <<_indices, _feature_dist, _target_dist, _target_vals,
                           _target_pred, _counts, h_map>>
       ELSE \E g \in Uninit :
            LET indices == FindBmu(data, _weights, DefaultBatchsize, g)
                tdist   == [i \in 0..(size - 1) |->
                               Select(target, [n \in DOMAIN indices |-> indices[n] = i])]
                tvals   == [i \in 0..(size - 1) |-> Mean(tdist[i])]
            IN  /\ _indices' = indices
                /\ _feature_dist' = [i \in 0..(size - 1) |->
                                        Select(data, [n \in DOMAIN indices |-> indices[n] = i])]
                /\ _target_dist' = tdist
                /\ _target_vals' = tvals
                /\ _target_pred' = Take(tvals, indices)
                /\ _counts' = Bincount(indices, size)
                /\ ret' = [op |-> "map", outcome |-> "returned"]
                /\ h_map' = [done |-> TRUE, data |-> data, target |-> target, weights |-> _weights]
    /\ UNCHANGED <<gridVars, bmuVars, fitVars>>

\* map_to_som(data) on an ndarray (lines 356-371)
MapToSom(data) ==
    /\ ft.pc = "idle"
    /\ IF _weights = None
       THEN ret' = [op |-> "map_to_som", outcome |-> "AttributeError"]
       ELSE IF ALen(data[0]) # ALen(_weights)
       THEN ret' = [op |-> "map_to_som", outcome |-> "AssertionError"]
       ELSE IF _target_vals = None
       THEN ret' = [op |-> "map_to_som", outcome |-> "AttributeError"]
       ELSE \E g \in Uninit :
            ret' = [op |-> "map_to_som", outcome |-> "returned", data |-> data,
                    value |-> Take(_target_vals, FindBmu(data, _weights, DefaultBatchsize, g))]
    /\ UNCHANGED <<gridVars, bmuVars, fitVars, _indices, _feature_dist, _target_dist,
                   _target_vals, _target_pred, _counts, h_map>>

\* The arguments of map: DataA or DataB with a target per row, and a matrix
\* of another feature dimension.
DataC == Mat(<<<<0>>, <<Q>>>>)
TargetOf(data) ==
    IF data = DataA THEN Arr(<<Q, 3 * Q, 6 * Q>>)
    ELSE IF data = DataB THEN Arr(<<2 * Q>>)
    ELSE Arr(<<Q, Q>>)
MapDatas == {DataA, DataB, DataC}

\* The fit calls of the model of mapping: valid training calls of one epoch
\* without a storage location, on DataA.
MapFitArgs ==
    { a \in AllFitArgs : /\ a.data = DataA /\ a.init = "random" /\ a.maxiter = 1
                         /\ a.save = None /\ a.use_saved }

MapFitStartCall == ft.pc = "idle" /\ \E a \in MapFitArgs : FitStart(a)
MapCall == \E d \in MapDatas : Map(d, TargetOf(d))
MapToSomCall == \E d \in MapDatas : MapToSom(d)

MapNext ==
    \/ MapFitStartCall
    \/ EpochBegin
    \/ SampleUpdate
    \/ EpochEnd
    \/ FitReturn
    \/ FitDone
    \/ MapCall
    \/ MapToSomCall

SpecMap == FitInit /\ [][MapNext]_vars

-----------------------------------------------------------------------------
(* Claims about fit *)

\* C4 as stated: a fit call that restores the saved state performs no epoch
\* and no update and ends with the prototypes and the loss history that a
\* fresh run of that same call produces (where a fresh run of it ends without
\* error), whatever calls came before.
C4_CachedEqualsFreshRun ==
    (ft.pc = "returned" /\ ft.cached) =>
        /\ ft.epochs = 0 /\ ft.updates = 0
        /\ LET f == FreshFit(ft.args, signature, metric)
           IN  ~f.error => (_weights = f.weights /\ _loss = f.loss)

\* C5 as stated: a fit call with a storage location and reuse permitted whose
\* saved state cannot be loaded does not end in an error (it goes on to a
\* fresh run).
C5_CorruptCacheIsMiss == ft.pc # "LoadError"

\* C6 as stated: in SOMz mode tt equals the number of sample updates performed
\* so far in the run.
C6_TtCountsSamples ==
    (ft.pc \in {"epoch", "sample"} /\ ft.args.somz) => ft.tt = ft.updates

\* C7 as stated: a fit call with maxiter = 0 and a valid init that does not
\* restore a saved state ends without error, on every geometry and in both
\* modes, with the prototypes at their initial values, an empty loss history
\* and no sample update.
C7_ZeroEpochs ==
    (ft.pc # "idle" /\ ~ft.cached /\ ft.args.maxiter = 0 /\ ft.args.init = "random") =>
        /\ ft.pc # "ValueError"
        /\ ft.updates = 0
        /\ ft.pc = "returned" =>
              /\ _weights = WeightsInit(ft.args, size, ft.args.seed)
              /\ ALen(_loss) = 0

\* C8 as stated: every fit call with an init other than 'random' ends in
\* ValueError, whatever the other arguments and the storage hold.
C8_InvalidInitFails ==
    (ft.pc # "idle" /\ ft.args.init # "random") => ft.pc = "ValueError"

-----------------------------------------------------------------------------
(* Claims about map and map_to_som *)

\* The squared distance of x to prototype j, NaN when the prototype holds one.
ProtoDist(x, w, j) ==
    IF \E d \in DOMAIN w : w[d][j] = NaN THEN NaN ELSE DistSq(x, w, j)

\* The best matching unit of x: the first prototype at the least distance.
Nearest(x, w) ==
    LET js == 0..(ALen(w[0]) - 1)
        nan == {j \in js : ProtoDist(x, w, j) = NaN}
    IN  IF nan # {} THEN CHOOSE j \in nan : \A i \in nan : j <= i
        ELSE CHOOSE j \in js :
                /\ \A i \in js : ProtoDist(x, w, j) <= ProtoDist(x, w, i)
                /\ \A i \in js : i < j => ProtoDist(x, w, j) < ProtoDist(x, w, i)

\* The sample indices of the last map call that fell into cell c.
CellSamples(c) == {n \in DOMAIN _indices : _indices[n] = c}

\* The k-th (from 0) sample of cell c in sample order.
CellSample(c, k) ==
    CHOOSE n \in CellSamples(c) : Cardinality({m \in CellSamples(c) : m < n}) = k

\* C9: after map(data, target) on N samples every assignment is a node index,
\* the BMU of its row; each cell's feature and target distributions hold
\* exactly the samples assigned to it, in order; counts has length size,
\* counts[c] is the number of samples of cell c, and the counts sum to N; on a
\* single-node grid cell 0 holds all N samples.
C9_MapPartitions ==
    (ret.op = "map" /\ ret.outcome = "returned") =>
        LET N == ALen(h_map.data)
        IN  /\ DOMAIN _indices = 0..(N - 1)
            /\ \A n \in DOMAIN _indices :
                  /\ _indices[n] \in Nodes
                  /\ _indices[n] = Nearest(h_map.data[n], _weights)
            /\ DOMAIN _counts = Nodes
            /\ DOMAIN _feature_dist = Nodes
            /\ DOMAIN _target_dist = Nodes
            /\ \A c \in Nodes :
                  /\ _counts[c] = Cardinality(CellSamples(c))
                  /\ DOMAIN _feature_dist[c] = 0..(_counts[c] - 1)
                  /\ DOMAIN _target_dist[c] = 0..(_counts[c] - 1)
                  /\ \A k \in 0..(_counts[c] - 1) :
                        /\ _feature_dist[c][k] = h_map.data[CellSample(c, k)]
                        /\ _target_dist[c][k] = h_map.target[CellSample(c, k)]
            /\ ASum(_counts) = N
            /\ size = 1 => _counts[0] = N

\* map has returned on a grid of several nodes with a cell of two samples
\* and an empty cell after it.
C9_Witness ==
    /\ ret.op = "map" /\ ret.outcome = "returned"
    /\ size > 1
    /\ \E c \in Nodes : _counts[c] >= 2
    /\ _counts[size - 1] = 0

\* C10 as stated: map_to_som fails when no map call has completed; otherwise
\* it returns for each row the mean target of the row's BMU cell from the last
\* map call, and on the data given to map exactly map's predictions.
C10_MapToSomRepeatsMap ==
    (ret.op = "map_to_som") =>
        /\ ~h_map.done => ret.outcome # "returned"
        /\ ret.outcome = "returned" =>
              /\ \A n \in DOMAIN ret.data :
                    ret.value[n] = _target_vals[Nearest(ret.data[n], _weights)]
              /\ h_map.done
              /\ DOMAIN ret.value = DOMAIN ret.data
              /\ ret.data = h_map.data => ret.value = _target_pred

-----------------------------------------------------------------------------
(* Claims about the persisted artifacts *)

\* The fit call is training and its last epoch has not finished.
BeforeLastEpochEnds ==
    /\ ft.pc \in {"epoch", "sample"}
    /\ ft.epochs < ft.args.maxiter

\* C11: a fit call that trains with a storage location writes the artifacts
\* only after all maxiter epochs have completed: no step taken before the last
\* epoch finishes (the start of the call, an epoch, a sample update, an
\* interruption) changes the storage location, every step that changes it is
\* taken by a call whose maxiter epochs are done, and when the call has
\* returned the location holds the final prototypes in the transposed
\* (size, D) layout and the loss history, of length maxiter.
C11_SavedOnlyOnCompletion ==
    /\ []((ft.pc = "returned" /\ ~ft.cached /\ ft.args.save # None) =>
            /\ ft.epochs = ft.args.maxiter
            /\ disk.weights.state = "ok" /\ disk.loss.state = "ok"
            /\ DOMAIN disk.weights.content = Nodes
            /\ \A j \in Nodes :
                  /\ DOMAIN disk.weights.content[j] = DOMAIN _weights
                  /\ \A d \in DOMAIN _weights :
                        disk.weights.content[j][d] = _weights[d][j]
            /\ disk.loss.content = _loss
            /\ ALen(disk.loss.content) = ft.args.maxiter)
    /\ [][/\ (ft.pc = "idle" \/ BeforeLastEpochEnds) => disk' = disk
          /\ disk' # disk => (ft.pc # "idle" /\ ft.epochs = ft.args.maxiter)]_vars

\* A two-epoch training call with the storage location has returned on a grid
\* of several nodes, with both artifacts written by it.
C11_Witness ==
    /\ ft.pc = "returned" /\ ~ft.cached
    /\ ft.args.save = SaveDir
    /\ ft.args.maxiter = 2
    /\ ft.updates > 0
    /\ size > 1
    /\ disk.weights.state = "ok" /\ disk.loss.state = "ok"
    /\ disk.loss.by = TrainKey(ft.args)

====
